---- MODULE Spec2Model ----
(***************************************************************************)
(* Job lifecycle of the video server (src/server.js): the in-memory job    *)
(* store, the detached submission task started by POST /api/generate-video *)
(* and the pollWorker sweeps started by setInterval; and the request flow  *)
(* of POST /api/generate-image (src/unnamed/part_000).  Node runs every    *)
(* handler and every continuation to its next await without interruption,  *)
(* so one action is one such run.                                          *)
(*                                                                         *)
(* Time is counted in clock ticks (Date.now() is `now`).  A provider body  *)
(* is a record of the fields the code reads; an absent field is Null.      *)
(* A body read (text()/json()) that follows a fetch is resolved in the     *)
(* same step as the fetch: the code touches no shared state in between.    *)
(* A job record holds the fields the lifecycle reads or decides on; the    *)
(* request parameters, createdAt and providerResponse are written once     *)
(* or for diagnosis only and are left out.                                 *)
(***************************************************************************)
EXTENDS Naturals, Sequences, FiniteSets

\* ---------------------------------------------------------------- bounds
MaxJobs == 2        \* jobs ever submitted
MaxSweeps == 2      \* pollWorker invocations that may be suspended at once
MaxTime == 2        \* last clock tick
MaxPromptLen == 3   \* characters of a submitted prompt
MaxTextLen == 1     \* words of a provider error text

\* MAX_POLL_MS (src/server.js:27), in clock ticks
MAX_POLL_MS == 1

\* the two history counters stop counting here
MaxCount == 2

Null == "null"                   \* an absent string or number
Undefined == [undefined |-> TRUE]  \* an absent object

\* ------------------------------------------------------- provider bodies
Blank ==
  [status |-> Null, state |-> Null, result_status |-> Null,
   video_url |-> Null, output_url |-> Null, result_video_url |-> Null,
   output0_url |-> Null, data0_url |-> Null,
   video_base64 |-> Null, output0_base64 |-> Null, data0_base64 |-> Null,
   id |-> Null, job_id |-> Null, task_id |-> Null, data_id |-> Null]

RemoteUrl == "https://x/v.mp4"
LocalUrl == "/out/video.mp4"

\* bodies the status endpoint may answer with
StatusPayloads ==
  { [Blank EXCEPT !.status = "processing"],
    [Blank EXCEPT !.status = "succeeded", !.output0_url = RemoteUrl],
    [Blank EXCEPT !.result_status = "finished", !.video_url = RemoteUrl,
                  !.data0_base64 = "QUJD"],
    [Blank EXCEPT !.state = "completed"],
    [Blank EXCEPT !.status = "failed"] }

\* bodies the generate endpoint may answer with
SubmitPayloads ==
  { [Blank EXCEPT !.video_url = RemoteUrl],
    [Blank EXCEPT !.video_base64 = "QUJD"],
    [Blank EXCEPT !.video_url = RemoteUrl, !.video_base64 = "QUJD"],
    [Blank EXCEPT !.task_id = "abc123"],
    Blank }

\* how a fetch plus its body read can end
FetchOutcomes == {"throws", "nonok", "badjson", "ok"}

\* JavaScript a || b on values where only an absent or empty one is falsy
Truthy(a) == a # Null /\ a # ""
Or(a, b) == IF Truthy(a) THEN a ELSE b

\* ------------------------------------------------------------------ state
VARIABLES
  apiKey,        \* API_KEY, fixed at process start
  now,           \* Date.now()
  jobs,          \* the jobs Map, in insertion order; jobs[i].id = i
  task,          \* task[i]: the detached submission task of job i
  sweep,         \* sweep[s]: one pollWorker invocation
  out,           \* what this step sent or logged: a handler's HTTP response or a
                 \* console.warn line, NoResponse when neither
  materialized,  \* materialized[i]: calls of saveVideoFromBase64OrUrl for job i
  assigned,      \* assigned[i]: assignments to jobs[i].resultUrl
  img            \* the POST /api/generate-image request being served

vars == <<apiKey, now, jobs, task, sweep, out, materialized, assigned, img>>

NoResponse == [code |-> 0]
\* an error that is a string
Message(m) == [message |-> m]
Count(n) == IF n < MaxCount THEN n + 1 ELSE n
IdleSweep == [pc |-> "idle", pos |-> 0, sData |-> Undefined]
Sweeps == 1..MaxSweeps

\* ---------------------------------------------------------------- prompts
Chars == {"a", " "}

Prompts == UNION {[1..n -> Chars] : n \in 0..MaxPromptLen}

\* String.prototype.trim
RECURSIVE TrimLeft(_)
TrimLeft(p) ==
  IF p # <<>> /\ Head(p) = " " THEN TrimLeft(Tail(p)) ELSE p

RECURSIVE TrimRight(_)
TrimRight(p) ==
  IF p # <<>> /\ p[Len(p)] = " " THEN TrimRight(SubSeq(p, 1, Len(p) - 1)) ELSE p

Trim(p) == TrimRight(TrimLeft(p))

\* the length test off by one
PromptTooShortByOne(prompt) == prompt = <<>> \/ Len(prompt) < 2

\* !prompt || prompt.length < 3
PromptTooShort(prompt) == prompt = <<>> \/ Len(prompt) < 3

\* -------------------------------------------------------------- pollWorker
\* a deadline test that fires already when the elapsed time equals the limit
TimedOutAtLimit(job, t) ==
  t - job.startedAt >= (IF job.maxPollMs # 0 THEN job.maxPollMs ELSE MAX_POLL_MS)

\* the deadline test with the elapsed time taken backwards
TimedOutBackwards(job, t) ==
  job.startedAt - t > (IF job.maxPollMs # 0 THEN job.maxPollMs ELSE MAX_POLL_MS)

\* elapsed > (job.maxPollMs || MAX_POLL_MS)
TimedOut(job, t) ==
  t - job.startedAt > (IF job.maxPollMs # 0 THEN job.maxPollMs ELSE MAX_POLL_MS)

\* the loop without its "cannot poll yet" test
RECURSIVE SweepFromPollsUnsubmitted(_, _, _)
SweepFromPollsUnsubmitted(js, i, t) ==
  IF i > Len(js) THEN [jobs |-> js, sweep |-> IdleSweep]
  ELSE IF js[i].status # "processing" THEN SweepFromPollsUnsubmitted(js, i + 1, t)
  ELSE IF TimedOut(js[i], t)
    THEN SweepFromPollsUnsubmitted(
           [js EXCEPT ![i].status = "failed",
                      ![i].error = Message("Polling timeout")], i + 1, t)
  ELSE [jobs |-> js, sweep |-> [pc |-> "fetch", pos |-> i, sData |-> Undefined]]

\* The synchronous part of the for loop from entry i on: every entry is
\* skipped, timed out or passed over until one needs a status call.
RECURSIVE SweepFrom(_, _, _)
SweepFrom(js, i, t) ==
  IF i > Len(js) THEN [jobs |-> js, sweep |-> IdleSweep]
  ELSE IF js[i].status # "processing" THEN SweepFrom(js, i + 1, t)
  ELSE IF TimedOut(js[i], t)
    THEN SweepFrom([js EXCEPT ![i].status = "failed",
                              ![i].error = Message("Polling timeout")], i + 1, t)
  ELSE IF ~Truthy(js[i].providerJobId) THEN SweepFrom(js, i + 1, t)
  ELSE [jobs |-> js, sweep |-> [pc |-> "fetch", pos |-> i, sData |-> Undefined]]

\* sData.status || sData.state || (sData.result && sData.result.status)
StatusField(d) == Or(d.status, Or(d.state, d.result_status))

VidUrl(d) ==
  Or(d.video_url, Or(d.output_url, Or(d.result_video_url,
     Or(d.output0_url, d.data0_url))))

B64(d) == Or(d.video_base64, Or(d.output0_base64, d.data0_base64))

IsSuccess(s) == Truthy(s) /\ s \in {"succeeded", "completed", "finished"}
\* a failure test that takes every status but "processing" for a failure
IsFailureUnlessProcessing(s) == s # "processing"

IsFailure(s) == Truthy(s) /\ s \in {"failed", "error"}

\* how saveVideoFromBase64OrUrl can end for these arguments (the write to
\* the out directory itself is taken to succeed)
SaveOutcomes(base64, remoteUrl) ==
  IF Truthy(base64) THEN {"written"}
  ELSE IF Truthy(remoteUrl) THEN {"downloaded", "degraded"}
  ELSE {"nothing"}

\* a save that answers with the local path whether or not the file was written
SaveResultAlwaysLocal(base64, remoteUrl, outcome) ==
  IF Truthy(base64) \/ Truthy(remoteUrl) THEN LocalUrl ELSE Null

\* its return value
SaveResult(base64, remoteUrl, outcome) ==
  IF Truthy(base64) THEN LocalUrl
  ELSE IF Truthy(remoteUrl)
    THEN (IF outcome = "downloaded" THEN LocalUrl ELSE remoteUrl)
  ELSE Null

\* a failed status poll: fetch or json() throws, or the answer is not ok
OnPollErrorFails(js, i) ==
  [js EXCEPT ![i].status = "failed", ![i].error = Message("Status poll failed")]

\* what a failed status poll does to the jobs: nothing, the loop goes on
OnPollError(js, i) == js

\* setInterval fires: a new pollWorker invocation runs to its first await
Tick(s) ==
  /\ sweep[s].pc = "idle"
  /\ \A r \in Sweeps : r < s => sweep[r].pc # "idle"
  /\ LET run == SweepFrom(jobs, 1, now) IN
       /\ jobs' = run.jobs
       /\ sweep' = [sweep EXCEPT ![s] = run.sweep]
  /\ out' = NoResponse
  /\ UNCHANGED <<apiKey, img, now, task, materialized, assigned>>

\* the status call of sweep s resolves
PollResolve(s, outcome, sData) ==
  /\ sweep[s].pc = "fetch"
  /\ LET i == sweep[s].pos
         status == StatusField(sData) IN
       IF outcome # "ok"
         THEN LET run == SweepFrom(OnPollError(jobs, i), i + 1, now) IN
                /\ jobs' = run.jobs
                /\ sweep' = [sweep EXCEPT ![s] = run.sweep]
                /\ UNCHANGED materialized
       ELSE IF IsSuccess(status)
         THEN /\ sweep' = [sweep EXCEPT ![s] = [pc |-> "save", pos |-> i,
                                                sData |-> sData]]
              /\ materialized' = [materialized EXCEPT ![i] = Count(@)]
              /\ UNCHANGED jobs
       ELSE IF IsFailure(status)
         THEN LET run == SweepFrom([jobs EXCEPT ![i].status = "failed",
                                                ![i].error = sData],
                                   i + 1, now) IN
                /\ jobs' = run.jobs
                /\ sweep' = [sweep EXCEPT ![s] = run.sweep]
                /\ UNCHANGED materialized
       ELSE LET run == SweepFrom([jobs EXCEPT ![i].lastProviderPayload = sData],
                                 i + 1, now) IN
              /\ jobs' = run.jobs
              /\ sweep' = [sweep EXCEPT ![s] = run.sweep]
              /\ UNCHANGED materialized
  /\ out' = IF outcome = "nonok"
              THEN [warn |-> "Status poll non-ok", job |-> sweep[s].pos]
            ELSE IF outcome # "ok"
              THEN [warn |-> "Poll worker error", job |-> sweep[s].pos]
            ELSE NoResponse
  /\ UNCHANGED <<apiKey, img, now, task, assigned>>

\* saveVideoFromBase64OrUrl returns to sweep s
PollSaved(s, outcome) ==
  /\ sweep[s].pc = "save"
  /\ LET i == sweep[s].pos
         sData == sweep[s].sData
         vidUrl == VidUrl(sData)
         b64 == B64(sData)
         saved == SaveResult(b64, vidUrl, outcome) IN
       /\ outcome \in SaveOutcomes(b64, vidUrl)
       /\ LET run == SweepFrom(
                  [jobs EXCEPT ![i].status = "succeeded",
                               ![i].resultUrl = Or(saved, Or(vidUrl, Null))],
                  i + 1, now) IN
            /\ jobs' = run.jobs
            /\ sweep' = [sweep EXCEPT ![s] = run.sweep]
       /\ assigned' = [assigned EXCEPT ![i] = Count(@)]
  /\ out' = IF outcome = "degraded"
              THEN [warn |-> "download remote video failed", job |-> sweep[s].pos]
            ELSE NoResponse
  /\ UNCHANGED <<apiKey, img, now, task, materialized>>

\* ------------------------------------------------ POST /api/generate-video
NewJob(jobId) ==
  [id |-> jobId, status |-> "queued",
   startedAt |-> Null, providerJobId |-> Null, resultUrl |-> Null,
   maxPollMs |-> MAX_POLL_MS,
   error |-> Undefined, lastProviderPayload |-> Undefined]

\* a task that leaves the record as created until the provider answers
StartedLater(job, t) == job

\* the first lines of the detached task: mark started
Started(job, t) == [job EXCEPT !.status = "processing", !.startedAt = t]

\* the handler awaiting its task: nothing is answered when the call starts
GenerateVideoAwaitsTask(body) ==
  LET prompt == Trim(body)
      jobId == Len(jobs) + 1 IN
  IF PromptTooShort(prompt)
    THEN /\ out' = [code |-> 400, error |-> "Prompt too short"]
         /\ UNCHANGED <<apiKey, img, now, jobs, task, sweep, materialized, assigned>>
  ELSE IF ~Truthy(apiKey)
    THEN /\ out' = [code |-> 500, error |-> "Server not configured"]
         /\ UNCHANGED <<apiKey, img, now, jobs, task, sweep, materialized, assigned>>
  ELSE /\ Len(jobs) < MaxJobs
       /\ jobs' = Append(jobs, Started(NewJob(jobId), now))
       /\ task' = Append(task, [pc |-> "fetch", pdata |-> Undefined])
       /\ materialized' = Append(materialized, 0)
       /\ assigned' = Append(assigned, 0)
       /\ out' = NoResponse
       /\ UNCHANGED <<apiKey, img, now, sweep>>

\* the handler up to its return: validation, job creation, and the detached
\* task's run to its first await (the provider call)
GenerateVideo(body) ==
  LET prompt == Trim(body)
      jobId == Len(jobs) + 1 IN
  IF PromptTooShort(prompt)
    THEN /\ out' = [code |-> 400, error |-> "Prompt too short"]
         /\ UNCHANGED <<apiKey, img, now, jobs, task, sweep, materialized, assigned>>
  ELSE IF ~Truthy(apiKey)
    THEN /\ out' = [code |-> 500, error |-> "Server not configured"]
         /\ UNCHANGED <<apiKey, img, now, jobs, task, sweep, materialized, assigned>>
  ELSE /\ Len(jobs) < MaxJobs
       /\ jobs' = Append(jobs, Started(NewJob(jobId), now))
       /\ task' = Append(task, [pc |-> "fetch", pdata |-> Undefined])
       /\ materialized' = Append(materialized, 0)
       /\ assigned' = Append(assigned, 0)
       /\ out' = [code |-> 200, jobId |-> jobId, status |-> "queued"]
       /\ UNCHANGED <<apiKey, img, now, sweep>>

\* a failing submission that writes to the newest job of the map, not to its own
OnSubmitErrorLatestJob(js, i, err) ==
  [js EXCEPT ![Len(js)].status = "failed", ![Len(js)].error = err]

\* a failing submission that forgets the status
OnSubmitErrorKeepsStatus(js, i, err) == [js EXCEPT ![i].error = err]

\* what the submission task does on a failed or unusable answer
OnSubmitError(js, i, err) == [js EXCEPT ![i].status = "failed", ![i].error = err]

\* pdata.id || pdata.job_id || pdata.task_id || (pdata.data && pdata.data.id)
ProviderJobId(pdata) ==
  Or(pdata.id, Or(pdata.job_id, Or(pdata.task_id, pdata.data_id)))

\* the provider call of job i's submission task resolves
SubmitResolve(i, outcome, pdata) ==
  /\ i \in 1..Len(jobs)
  /\ task[i].pc = "fetch"
  /\ LET providerJobId == ProviderJobId(pdata) IN
       IF outcome = "nonok"
         THEN /\ jobs' = OnSubmitError(jobs, i, Message("Provider initial error"))
              /\ task' = [task EXCEPT ![i].pc = "done"]
              /\ UNCHANGED materialized
       ELSE IF outcome # "ok"
         THEN /\ jobs' = OnSubmitError(jobs, i, Message("err.message"))
              /\ task' = [task EXCEPT ![i].pc = "done"]
              /\ UNCHANGED materialized
       ELSE IF Truthy(pdata.video_url) \/ Truthy(pdata.video_base64)
         THEN /\ task' = [task EXCEPT ![i] = [pc |-> "save", pdata |-> pdata]]
              /\ materialized' = [materialized EXCEPT ![i] = Count(@)]
              /\ UNCHANGED jobs
       ELSE IF Truthy(providerJobId)
         THEN /\ jobs' = [jobs EXCEPT ![i].providerJobId = providerJobId]
              /\ task' = [task EXCEPT ![i].pc = "done"]
              /\ UNCHANGED materialized
       ELSE /\ jobs' = OnSubmitError(jobs, i,
                          [note |-> "Unexpected provider response",
                           payload |-> pdata])
            /\ task' = [task EXCEPT ![i].pc = "done"]
            /\ UNCHANGED materialized
  /\ out' = NoResponse
  /\ UNCHANGED <<apiKey, img, now, sweep, assigned>>

\* saveVideoFromBase64OrUrl returns to job i's submission task
SubmitSaved(i, outcome) ==
  /\ i \in 1..Len(jobs)
  /\ task[i].pc = "save"
  /\ LET pdata == task[i].pdata
         byUrl == Truthy(pdata.video_url)
         saved == IF byUrl THEN SaveResult(Null, pdata.video_url, outcome)
                  ELSE SaveResult(pdata.video_base64, Null, outcome) IN
       /\ outcome \in (IF byUrl THEN SaveOutcomes(Null, pdata.video_url)
                       ELSE SaveOutcomes(pdata.video_base64, Null))
       /\ jobs' = [jobs EXCEPT
            ![i].status = "succeeded",
            ![i].resultUrl = IF byUrl THEN Or(saved, pdata.video_url) ELSE saved]
       /\ assigned' = [assigned EXCEPT ![i] = Count(@)]
       /\ task' = [task EXCEPT ![i] = [pc |-> "done", pdata |-> Undefined]]
  /\ out' = IF outcome = "degraded"
              THEN [warn |-> "download remote video failed", job |-> i]
            ELSE NoResponse
  /\ UNCHANGED <<apiKey, img, now, sweep, materialized>>

\* ------------------------------------------------ POST /api/generate-image
\* (src/unnamed/part_000)  A provider answer is [status, text, json]; text is
\* a sequence of words, json the parsed body, Undefined when it is not JSON.
LocalImage == "/out/image.png"
RemoteImage == "https://x/y.png"

BlankImage ==
  [artifacts0_base64 |-> Null, image_base64 |-> Null,
   output0_url |-> Null, image_url |-> Null]

ImagePayloads ==
  { Undefined,
    BlankImage,
    [BlankImage EXCEPT !.artifacts0_base64 = "QUJD"],
    [BlankImage EXCEPT !.output0_url = RemoteImage],
    [BlankImage EXCEPT !.image_base64 = "QUJD", !.image_url = RemoteImage] }

Words == {"Multipart", "Content-Type", "accept", "prompt: required", "unavailable"}

\* String.prototype.toLowerCase, word by word
LowerWord(w) ==
  CASE w = "Multipart" -> "multipart"
    [] w = "Content-Type" -> "content-type"
    [] OTHER -> w

ToLowerCase(text) == [k \in 1..Len(text) |-> LowerWord(text[k])]

\* String.prototype.includes
Includes(text, marker) == \E k \in 1..Len(text) : text[k] = marker

Texts == UNION {[1..n -> Words] : n \in 0..MaxTextLen}

\* resp.ok
Ok(status) == status >= 200 /\ status < 300

ImageResponses ==
  {[status |-> 200, text |-> <<>>, json |-> j] : j \in ImagePayloads}
  \cup {[status |-> st, text |-> tx, json |-> Undefined] : st \in {400, 500}, tx \in Texts}

IdleImage ==
  [pc |-> "idle", jsonAttempt |-> Undefined, imageUrl |-> Null,
   jsonCalls |-> 0, formCalls |-> 0]

\* the base64 lookup of both attempts
ImageB64(pdata) ==
  IF pdata = Undefined THEN Null
  ELSE Or(pdata.artifacts0_base64, Or(pdata.image_base64, Null))

\* the url lookup of both attempts
ImageUrl(pdata) ==
  IF pdata = Undefined THEN Null
  ELSE Or(pdata.output0_url, Or(pdata.image_url, Null))

\* a retry after every failed JSON attempt
WantsFormAlways(jsonAttempt) == TRUE

\* a retry test that forgets to lower the case of the body text
WantsFormCaseSensitive(jsonAttempt) ==
  \/ jsonAttempt.status = 400
  \/ Includes(jsonAttempt.text, "multipart")
  \/ Includes(jsonAttempt.text, "content-type")
  \/ Includes(jsonAttempt.text, "accept")
  \/ Includes(jsonAttempt.text, "prompt: required")

\* the test that decides the form-data retry
WantsForm(jsonAttempt) ==
  LET lowerText == ToLowerCase(jsonAttempt.text) IN
    \/ jsonAttempt.status = 400
    \/ Includes(lowerText, "multipart")
    \/ Includes(lowerText, "content-type")
    \/ Includes(lowerText, "accept")
    \/ Includes(lowerText, "prompt: required")

\* what either attempt does with a successful answer
ImageAccept(attempt, emptyError) ==
  LET pdata == attempt.json
      b64 == ImageB64(pdata)
      imageUrl == ImageUrl(pdata) IN
    IF Truthy(b64)
      THEN /\ out' = [code |-> 200, imageUrl |-> LocalImage]
           /\ img' = [img EXCEPT !.pc = "idle"]
    ELSE IF Truthy(imageUrl)
      THEN /\ out' = NoResponse
           /\ img' = [img EXCEPT !.pc = "download", !.imageUrl = imageUrl]
    ELSE /\ out' = [code |-> 500, error |-> emptyError, payload |-> pdata]
         /\ img' = [img EXCEPT !.pc = "idle"]

\* the handler up to its first await: validation, then the JSON attempt
GenerateImage(body) ==
  LET prompt == Trim(body) IN
  /\ img.pc = "idle"
  /\ IF PromptTooShort(prompt)
       THEN /\ out' = [code |-> 400, error |-> "Prompt too short"]
            /\ UNCHANGED img
     ELSE IF ~Truthy(apiKey)
       THEN /\ out' = [code |-> 500, error |-> "Server not configured"]
            /\ UNCHANGED img
     ELSE /\ out' = NoResponse
          /\ img' = [IdleImage EXCEPT !.pc = "json", !.jsonCalls = 1]
  /\ UNCHANGED <<apiKey, now, jobs, task, sweep, materialized, assigned>>

\* postJsonToProvider returns or throws
ImageJsonResolve(outcome, resp) ==
  /\ img.pc = "json"
  /\ IF outcome = "throws"
       THEN /\ out' = [code |-> 500, error |-> "err.message"]
            /\ img' = [img EXCEPT !.pc = "idle"]
     ELSE IF Ok(resp.status)
       THEN ImageAccept(resp, "No image returned in provider JSON")
     ELSE IF WantsForm(resp)
       THEN /\ out' = NoResponse
            /\ img' = [img EXCEPT !.pc = "form", !.jsonAttempt = resp,
                                  !.formCalls = @ + 1]
     ELSE /\ out' = [code |-> 502, error |-> "Provider initial error",
                     status |-> resp.status, details |-> resp.text]
          /\ img' = [img EXCEPT !.pc = "idle"]
  /\ UNCHANGED <<apiKey, now, jobs, task, sweep, materialized, assigned>>

\* postFormToProvider returns or throws
ImageFormResolve(outcome, resp) ==
  /\ img.pc = "form"
  /\ IF outcome = "throws"
       THEN /\ out' = [code |-> 500, error |-> "err.message"]
            /\ img' = [img EXCEPT !.pc = "idle"]
     ELSE IF Ok(resp.status)
       THEN ImageAccept(resp, "No image returned in provider form response")
     ELSE /\ out' = [code |-> 502,
                     error |-> "Provider initial error and form-data retry",
                     jsonAttempt |-> [status |-> img.jsonAttempt.status,
                                      text |-> img.jsonAttempt.text],
                     formAttempt |-> [status |-> resp.status, text |-> resp.text]]
          /\ img' = [img EXCEPT !.pc = "idle"]
  /\ UNCHANGED <<apiKey, now, jobs, task, sweep, materialized, assigned>>

\* the download of a result url ends
ImageDownloaded(outcome) ==
  /\ img.pc = "download"
  /\ out' = [code |-> 200,
             imageUrl |-> IF outcome = "ok" THEN LocalImage ELSE img.imageUrl]
  /\ img' = [img EXCEPT !.pc = "idle"]
  /\ UNCHANGED <<apiKey, now, jobs, task, sweep, materialized, assigned>>

\* ------------------------------------------------------------------ clock
Advance ==
  /\ now < MaxTime
  /\ now' = now + 1
  /\ out' = NoResponse
  /\ UNCHANGED <<apiKey, img, jobs, task, sweep, materialized, assigned>>

\* ---------------------------------------------------------- specification
Init ==
  /\ apiKey \in {"", "secret"}
  /\ now = 0
  /\ jobs = <<>>
  /\ task = <<>>
  /\ sweep = [s \in Sweeps |-> IdleSweep]
  /\ out = NoResponse
  /\ materialized = <<>>
  /\ assigned = <<>>
  /\ img = IdleImage

Next ==
  \/ \E body \in Prompts : GenerateVideo(body)
  \/ \E i \in 1..MaxJobs, outcome \in FetchOutcomes, pdata \in SubmitPayloads :
       (outcome = "ok" \/ pdata = Blank) /\ SubmitResolve(i, outcome, pdata)
  \/ \E i \in 1..MaxJobs, outcome \in {"written", "downloaded", "degraded"} :
       SubmitSaved(i, outcome)
  \/ \E s \in Sweeps : Tick(s)
  \/ \E s \in Sweeps, outcome \in FetchOutcomes, sData \in StatusPayloads :
       (outcome = "ok" \/ sData = [Blank EXCEPT !.status = "failed"]) /\ PollResolve(s, outcome, sData)
  \/ \E s \in Sweeps,
        outcome \in {"written", "downloaded", "degraded", "nothing"} :
       PollSaved(s, outcome)
  \/ Advance

Spec == Init /\ [][Next]_vars

\* setInterval fires while MaxSweeps invocations are still waiting for the
\* provider: the new invocation runs its loop up to its first await, that is
\* past every entry it skips or times out; its status call is one that never
\* returns.
TickBeyond ==
  /\ \A s \in Sweeps : sweep[s].pc # "idle"
  /\ jobs' = SweepFrom(jobs, 1, now).jobs
  /\ out' = NoResponse
  /\ UNCHANGED <<apiKey, img, now, task, sweep, materialized, assigned>>

\* a new invocation of pollWorker
Interval == TickBeyond \/ \E s \in Sweeps : Tick(s)

NextLive == Next \/ TickBeyond

\* the clock goes on and setInterval keeps calling pollWorker; no provider
\* call is required to return
SpecLive ==
  Init /\ [][NextLive]_vars /\ WF_vars(Advance) /\ WF_vars(Interval)

\* the status endpoint may also answer with a body that has no status field
NextAnyStatus == Next \/ \E s \in Sweeps : PollResolve(s, "ok", Blank)

SpecAnyStatus == Init /\ [][NextAnyStatus]_vars

\* GET /api/status/:jobId
GetStatus(jobId) ==
  /\ out' = IF jobId \in 1..Len(jobs)
              THEN [code |-> 200, id |-> jobs[jobId].id,
                    status |-> jobs[jobId].status,
                    resultUrl |-> jobs[jobId].resultUrl,
                    error |-> jobs[jobId].error,
                    providerJobId |-> jobs[jobId].providerJobId]
            ELSE [code |-> 404, error |-> "Job not found"]
  /\ UNCHANGED <<apiKey, img, now, jobs, task, sweep, materialized, assigned>>

\* the video server with its status endpoint queried at any moment
NextQuery == Next \/ \E jobId \in 1..(MaxJobs + 1) : GetStatus(jobId)

SpecQuery == Init /\ [][NextQuery]_vars

\* the request handlers of both servers and their continuations, without
\* the poll loop
NextHttp ==
  \/ \E body \in Prompts : GenerateVideo(body)
  \/ \E i \in 1..MaxJobs, outcome \in FetchOutcomes, pdata \in SubmitPayloads :
       (outcome = "ok" \/ pdata = Blank) /\ SubmitResolve(i, outcome, pdata)
  \/ \E i \in 1..MaxJobs, outcome \in {"written", "downloaded", "degraded"} :
       SubmitSaved(i, outcome)
  \/ \E body \in Prompts : GenerateImage(body)
  \/ \E outcome \in {"throws", "returns"}, resp \in ImageResponses :
       ImageJsonResolve(outcome, resp)
  \/ \E outcome \in {"throws", "returns"}, resp \in ImageResponses :
       ImageFormResolve(outcome, resp)
  \/ \E outcome \in {"ok", "nonok", "throws"} : ImageDownloaded(outcome)

SpecHttp == Init /\ [][NextHttp]_vars

TypeOK ==
  /\ now \in 0..MaxTime
  /\ Len(jobs) <= MaxJobs
  /\ Len(task) = Len(jobs)

\* ------------------------------------------------------------------ claims
JobIds == 1..Len(jobs)
Terminal(status) == status \in {"succeeded", "failed"}
Rank(status) ==
  CASE status = "queued" -> 0
    [] status = "processing" -> 1
    [] OTHER -> 2

\* a step of a pollWorker invocation: its start or one of its continuations
SweepStep ==
  \/ \E s \in Sweeps : Tick(s)
  \/ \E s \in Sweeps, outcome \in FetchOutcomes, sData \in StatusPayloads :
       PollResolve(s, outcome, sData)
  \/ \E s \in Sweeps, outcome \in {"written", "downloaded", "degraded", "nothing"} :
       PollSaved(s, outcome)

\* C1: in every step the status of every job stays where it is or moves
\* forward along queued -> processing -> {succeeded | failed}; a terminal
\* status is never left, so succeeded never becomes failed nor failed
\* succeeded.
C1_StatusMonotonic ==
  [][\A i \in JobIds :
       /\ Rank(jobs'[i].status) >= Rank(jobs[i].status)
       /\ Terminal(jobs[i].status) => jobs'[i].status = jobs[i].status]_vars

\* C2: a succeeded job has a resultUrl and no error, a failed job has an
\* error and no resultUrl, a queued or processing job has neither.
C2_ExactlyOneOutcome ==
  \A i \in JobIds :
    LET job == jobs[i] IN
      /\ job.status = "succeeded" =>
           job.resultUrl # Null /\ job.error = Undefined
      /\ job.status = "failed" =>
           job.error # Undefined /\ job.resultUrl = Null
      /\ job.status \in {"queued", "processing"} =>
           job.resultUrl = Null /\ job.error = Undefined

\* the pollWorker invocations waiting on a status call or on the
\* materialization for job i
InFlight(i) == {s \in Sweeps : sweep[s].pc \in {"fetch", "save"} /\ sweep[s].pos = i}

\* C3: at no time are two status checks for the same job outstanding.
C3_SingleFlight ==
  \A i \in JobIds : Cardinality(InFlight(i)) <= 1

\* C4: for every job saveVideoFromBase64OrUrl is called at most once and
\* resultUrl is assigned at most once.
C4_MaterializedOnce ==
  \A i \in JobIds : materialized[i] <= 1 /\ assigned[i] <= 1

\* C5: no step, in particular no resolution of a provider call that was
\* still outstanding, changes status, resultUrl, error or providerJobId of
\* a job that is already succeeded or failed.
C5_TerminalIsFrozen ==
  [][\A i \in JobIds :
       Terminal(jobs[i].status) =>
         /\ jobs'[i].status = jobs[i].status
         /\ jobs'[i].resultUrl = jobs[i].resultUrl
         /\ jobs'[i].error = jobs[i].error
         /\ jobs'[i].providerJobId = jobs[i].providerJobId]_vars

\* C6: a job that the timeout check has set to failed stays failed,
\* whatever the provider reports afterwards.
C6_TimeoutIsFinal ==
  [][\A i \in JobIds :
       (jobs[i].status = "failed" /\ jobs[i].error = Message("Polling timeout"))
         => jobs'[i].status = "failed"]_vars

\* a submission that passes both checks of the handlers
Valid(body) == Len(Trim(body)) >= 3 /\ apiKey # ""

\* C7: a valid submission is answered {jobId, status: "queued"} in the
\* step that starts the provider call, while that call is still outstanding.
C7_SubmitDoesNotAwaitProvider ==
  [][\A body \in Prompts :
       (Valid(body) /\ GenerateVideo(body)) =>
         LET jobId == Len(jobs) + 1 IN
           /\ Len(jobs') = jobId
           /\ out' = [code |-> 200, jobId |-> jobId, status |-> "queued"]
           /\ task'[jobId].pc = "fetch"]_vars

\* C7: submit has answered and the provider call has not resolved
C7_Witness ==
  \E i \in JobIds :
    /\ out = [code |-> 200, jobId |-> i, status |-> "queued"]
    /\ task[i].pc = "fetch"

\* C8: a video or image submission with a trimmed prompt shorter than 3
\* characters is answered 400, one that passes this check while no
\* credential is configured is answered 500; neither creates a job nor
\* starts a provider call.
C8_RejectedBeforeCreation ==
  [][\A body \in Prompts :
       ~Valid(body) =>
         LET code == IF Len(Trim(body)) < 3 THEN 400 ELSE 500 IN
           /\ GenerateVideo(body) =>
                out'.code = code /\ jobs' = jobs /\ task' = task /\ img' = img
           /\ GenerateImage(body) =>
                out'.code = code /\ jobs' = jobs /\ task' = task /\ img' = img]_vars

\* C8: a submission was rejected for its prompt while the registry holds a job
C8_Witness ==
  /\ out = [code |-> 400, error |-> "Prompt too short"]
  /\ Len(jobs) >= 1
  /\ apiKey # ""

Unsubmitted(job) == job.status = "processing" /\ ~Truthy(job.providerJobId)

\* the status calls issued by this step
Issued == {s \in Sweeps : sweep'[s] # sweep[s] /\ sweep'[s].pc = "fetch"}

\* C9 as stated: a step of a sweep changes no field of a processing job
\* that has no providerJobId and issues no status call for it.
C9_UnsubmittedUntouched ==
  [][SweepStep =>
       \A i \in JobIds :
         Unsubmitted(jobs[i]) =>
           /\ jobs'[i] = jobs[i]
           /\ \A s \in Issued : sweep'[s].pos # i]_vars

\* C9 amended: a step of a sweep changes no field of a processing job that
\* has no providerJobId unless its deadline has passed, and then only by
\* failing it with the timeout error; status calls are issued only for
\* processing jobs that have a providerJobId.
C9_UnsubmittedUntouchedUntilDeadline ==
  [][SweepStep =>
       /\ \A i \in JobIds :
            Unsubmitted(jobs[i]) =>
              \/ jobs'[i] = jobs[i]
              \/ /\ TimedOut(jobs[i], now)
                 /\ jobs'[i] = [jobs[i] EXCEPT !.status = "failed",
                                               !.error = Message("Polling timeout")]
       /\ \A s \in Issued :
            /\ jobs[sweep'[s].pos].status = "processing"
            /\ Truthy(jobs[sweep'[s].pos].providerJobId)]_vars

\* C9: a sweep has passed over job 1, which awaits its submission answer,
\* and polls job 2
C9_Witness ==
  /\ Len(jobs) = 2
  /\ Unsubmitted(jobs[1]) /\ task[1].pc = "fetch" /\ ~TimedOut(jobs[1], now)
  /\ jobs[1].error = Undefined
  /\ \E s \in Sweeps : sweep[s].pc = "fetch" /\ sweep[s].pos = 2

\* the lines pollWorker logs for a failed status poll of job i
PollErrorLines(i) ==
  { [warn |-> "Status poll non-ok", job |-> i],
    [warn |-> "Poll worker error", job |-> i] }

Pollable(job, t) ==
  job.status = "processing" /\ ~TimedOut(job, t) /\ Truthy(job.providerJobId)

\* C10: a failed status poll of a job changes no field of the job, and every
\* new sweep issues a status call for the first job that is processing,
\* within its deadline and has a providerJobId.
C10_PollErrorNotTerminal ==
  [][/\ \A i \in JobIds : out' \in PollErrorLines(i) => jobs'[i] = jobs[i]
     /\ \A s \in Sweeps :
          Tick(s) =>
            LET P == {i \in JobIds : Pollable(jobs[i], now)} IN
              P # {} =>
                /\ sweep'[s].pc = "fetch"
                /\ \A i \in P : sweep'[s].pos <= i
                /\ sweep'[s].pos \in P]_vars

\* C10: a status poll of job i has just failed and job i is still polled
C10_Witness ==
  \E i \in JobIds :
    /\ out \in PollErrorLines(i)
    /\ Pollable(jobs[i], now)
    /\ \E s \in Sweeps : sweep[s].pc = "fetch" /\ sweep[s].pos = i

\* a submission answer that carries neither a result nor a handle
Unusable(pdata) ==
  /\ ~Truthy(pdata.video_url) /\ ~Truthy(pdata.video_base64)
  /\ ~Truthy(ProviderJobId(pdata))

\* C11: when the submission call fails (network error, non-ok status,
\* unreadable body) or its answer carries neither a result nor a handle, the
\* step of the submission task that receives it leaves the job failed with
\* an error and without resultUrl or providerJobId, and ends the task.
C11_SubmitFailureIsImmediate ==
  [][\A i \in JobIds, outcome \in FetchOutcomes, pdata \in SubmitPayloads :
       ((outcome # "ok" \/ Unusable(pdata)) /\ SubmitResolve(i, outcome, pdata)) =>
         /\ jobs'[i].status = "failed"
         /\ jobs'[i].error # Undefined
         /\ jobs'[i].error # Message("Polling timeout")
         /\ jobs'[i].resultUrl = Null
         /\ jobs'[i].providerJobId = Null
         /\ task'[i].pc = "done"
         /\ sweep' = sweep]_vars

\* C11: a job failed by its submission task at the tick it started, no
\* sweep having run on it
C11_Witness ==
  \E i \in JobIds :
    /\ jobs[i].status = "failed"
    /\ jobs[i].error = Message("Provider initial error")
    /\ task[i].pc = "done"
    /\ now = jobs[i].startedAt
    /\ \A s \in Sweeps : sweep[s].pc = "idle"

\* C12: a job never becomes succeeded with an empty resultUrl: an answer
\* recognized as success from which nothing can be extracted fails the job.
C12_NoEmptySuccess ==
  \A i \in JobIds : jobs[i].status = "succeeded" => jobs[i].resultUrl # Null

\* the markers of the fallback heuristic, as the provider may spell them
Markers == {"Multipart", "multipart", "Content-Type", "content-type",
            "accept", "prompt: required"}

\* the JSON attempt failed in a way that asks for the form-encoded retry
Heuristic(resp) ==
  /\ ~(resp.status \in 200..299)
  /\ \/ resp.status = 400
     \/ \E k \in 1..Len(resp.text) : resp.text[k] \in Markers

\* C13: every image submission starts with exactly one JSON attempt; the
\* step that receives its answer starts the form-encoded retry if and only if
\* the answer is not successful and has status 400 or a marker in its text,
\* whatever the case of the marker; a request never makes a second JSON
\* attempt or a second form attempt, and no form attempt before the JSON one.
C13_FallbackLaw ==
  [][
     /\ \A outcome \in {"throws", "returns"}, resp \in ImageResponses :
          ImageJsonResolve(outcome, resp) =>
            /\ img'.pc = "form" <=> (outcome = "returns" /\ Heuristic(resp))
            /\ img'.formCalls = IF img'.pc = "form" THEN 1 ELSE 0
     /\ img'.pc # "idle" => img'.jsonCalls = 1
     /\ img'.jsonCalls <= 1
     /\ img'.formCalls <= 1
     /\ img'.pc = "json" => img'.formCalls = 0
     /\ (img.pc = "form" /\ img' # img) => (img'.pc # "json" /\ img'.pc # "form")
  ]_vars

\* C13: a form-encoded retry in flight after a JSON attempt that failed with
\* a status other than 400 and a capitalised marker in its text
C13_Witness ==
  /\ img.pc = "form"
  /\ img.jsonAttempt.status = 500
  /\ img.jsonAttempt.text = <<"Multipart">>
  /\ img.jsonCalls = 1
  /\ img.formCalls = 1

\* C14: when a provider answer carries both a base64 payload and a result
\* url, the step that ends the save of it has written the payload (resultUrl
\* is the local file) and no download of the url has been attempted, for the
\* submission answer and for the status answer alike.
C14_Base64BeforeUrl ==
  [][
     /\ \A i \in JobIds :
          (/\ task[i].pc = "save"
           /\ task'[i].pc = "done"
           /\ Truthy(task[i].pdata.video_base64)) =>
            /\ jobs'[i].resultUrl = LocalUrl
            /\ out' = NoResponse
     /\ \A s \in Sweeps :
          (/\ sweep[s].pc = "save"
           /\ sweep'[s] # sweep[s]
           /\ Truthy(B64(sweep[s].sData))) =>
            /\ jobs'[sweep[s].pos].resultUrl = LocalUrl
            /\ out' = NoResponse
  ]_vars

\* the line logged when the download of a result url fails
DownloadFailed(i) == [warn |-> "download remote video failed", job |-> i]

\* C15: the step in which the download of a job's result url fails leaves
\* the job succeeded with the remote url as its resultUrl, and without an
\* error of that step: a failed download never fails the job.
C15_DegradeNotFail ==
  [][\A i \in JobIds :
       out' = DownloadFailed(i) =>
         /\ jobs'[i].status = "succeeded"
         /\ jobs'[i].resultUrl = RemoteUrl
         /\ jobs'[i].error = jobs[i].error]_vars

\* C15: a job that succeeded by a poll whose download has just failed
C15_Witness ==
  \E i \in JobIds :
    /\ out = DownloadFailed(i)
    /\ jobs[i].status = "succeeded"
    /\ jobs[i].resultUrl = RemoteUrl
    /\ jobs[i].providerJobId # Null

\* job k reaches its own deadline in this step
OwnDeadline(k) ==
  /\ jobs[k].status = "processing"
  /\ TimedOut(jobs[k], now)
  /\ jobs'[k] = [jobs[k] EXCEPT !.status = "failed",
                                !.error = Message("Polling timeout")]

\* the loop of sweep s goes on behind entry i: entries over their deadline
\* are failed up to the first pollable one, which gets its status call
GoesOn(s, i) ==
  LET Rest == {k \in JobIds : k > i /\ Pollable(jobs[k], now)} IN
    /\ Rest # {} =>
         /\ sweep'[s].pc = "fetch"
         /\ sweep'[s].pos \in Rest
         /\ \A k \in Rest : sweep'[s].pos <= k
    /\ \A k \in JobIds :
         (/\ k > i
          /\ Rest # {} => k < sweep'[s].pos
          /\ jobs[k].status = "processing"
          /\ TimedOut(jobs[k], now)) => jobs'[k].status = "failed"

\* C16: a step of the submission task of job i changes no other job; a step
\* of a sweep at entry i changes another job only by that job's own deadline;
\* and when the step fails job i or its poll of job i fails, the sweep goes
\* on to the remaining entries, as a new sweep does past the entries it
\* times out.
C16_JobIsolation ==
  [][
     /\ \A i \in JobIds :
          task'[i] # task[i] => \A k \in JobIds \ {i} : jobs'[k] = jobs[k]
     /\ \A s \in Sweeps :
          (sweep[s].pc # "idle" /\ sweep'[s] # sweep[s]) =>
            LET i == sweep[s].pos IN
              /\ \A k \in JobIds \ {i} : jobs'[k] = jobs[k] \/ OwnDeadline(k)
              /\ (\/ jobs'[i].status = "failed" /\ jobs'[i] # jobs[i]
                  \/ out' \in PollErrorLines(i)) => GoesOn(s, i)
     /\ \A s \in Sweeps :
          Tick(s) =>
            /\ \A k \in JobIds : jobs'[k] = jobs[k] \/ OwnDeadline(k)
            /\ GoesOn(s, 0)
  ]_vars

\* C16: the first job has been failed by its status answer, the second job is
\* untouched and the same sweep now polls it
C16_Witness ==
  /\ Len(jobs) = 2
  /\ jobs[1].status = "failed"
  /\ jobs[1].error = [Blank EXCEPT !.status = "failed"]
  /\ jobs[2].status = "processing"
  /\ jobs[2].error = Undefined
  /\ \E s \in Sweeps : sweep[s].pc = "fetch" /\ sweep[s].pos = 2

\* C17: with the clock going on and pollWorker called again and again, every
\* job that is processing, its deadline within the modelled clock, eventually
\* is succeeded or failed, and every job still processing after its deadline
\* eventually is not processing any more, whether or not its provider calls
\* ever return.
C17_EveryJobEnds ==
  \A i \in 1..MaxJobs :
    /\ (/\ i \in JobIds
        /\ jobs[i].status = "processing"
        /\ jobs[i].startedAt + MAX_POLL_MS < MaxTime)
         ~> (i \in JobIds /\ Terminal(jobs[i].status))
    /\ (/\ i \in JobIds
        /\ jobs[i].status = "processing"
        /\ TimedOut(jobs[i], now))
         ~> (i \in JobIds /\ jobs[i].status # "processing")

\* C17: a job failed by its deadline while its submission call has not
\* returned
C17_Witness ==
  \E i \in JobIds :
    /\ task[i].pc = "fetch"
    /\ jobs[i].status = "failed"
    /\ jobs[i].error = Message("Polling timeout")
    /\ jobs[i].providerJobId = Null

\* C18: when the form-encoded retry fails too, the caller gets one 502 that
\* carries the status and text of the JSON answer and the status and text of
\* the form answer; when the JSON answer fails without status 400 and without
\* a marker, the caller gets a 502 with that answer's status and text alone
\* and no form attempt is made.
C18_CompositeError ==
  [][\A resp \in ImageResponses :
       /\ (ImageJsonResolve("returns", resp) /\ img'.pc = "form") =>
            img'.jsonAttempt = resp
       /\ (ImageFormResolve("returns", resp) /\ ~(resp.status \in 200..299)) =>
            /\ out' = [code |-> 502,
                       error |-> "Provider initial error and form-data retry",
                       jsonAttempt |-> [status |-> img.jsonAttempt.status,
                                        text |-> img.jsonAttempt.text],
                       formAttempt |-> [status |-> resp.status,
                                        text |-> resp.text]]
            /\ img'.pc = "idle"
       /\ (/\ ImageJsonResolve("returns", resp)
           /\ ~(resp.status \in 200..299)
           /\ ~Heuristic(resp)) =>
            /\ out' = [code |-> 502, error |-> "Provider initial error",
                       status |-> resp.status, details |-> resp.text]
            /\ img'.pc = "idle"
            /\ img'.formCalls = 0]_vars

\* C18: the answer to a request whose two attempts have failed differently
C18_Witness ==
  /\ out = [code |-> 502,
            error |-> "Provider initial error and form-data retry",
            jsonAttempt |-> [status |-> 400, text |-> <<"prompt: required">>],
            formAttempt |-> [status |-> 500, text |-> <<"unavailable">>]]
  /\ img.pc = "idle"
  /\ img.formCalls = 1

\* C19: a job is created without providerJobId; providerJobId changes only
\* from absent to a value, only in the step in which the submission task of
\* the job receives its answer, and only on a job that is processing before
\* and after that step; hence it is set at most once and never changed or
\* cleared.
C19_HandleSetOnce ==
  [][/\ Len(jobs') > Len(jobs) => jobs'[Len(jobs')].providerJobId = Null
     /\ \A i \in JobIds :
          jobs'[i].providerJobId # jobs[i].providerJobId =>
            /\ jobs[i].providerJobId = Null
            /\ task[i].pc = "fetch"
            /\ task'[i].pc = "done"
            /\ jobs[i].status = "processing"
            /\ jobs'[i].status = "processing"]_vars

\* the status words the poll loop acts on
Synonyms == {"succeeded", "completed", "finished", "failed", "error"}

\* C20: when a status call returns ok with a status that is no success and no
\* failure synonym, or with none at all, the step changes nothing of the job
\* but lastProviderPayload, which becomes the answer; nothing is saved, and a
\* job that was pollable still is, so a later sweep polls it again.
C20_UnknownStatusKeepsPolling ==
  [][\A s \in Sweeps, sData \in StatusPayloads \cup {Blank} :
       (/\ ~(StatusField(sData) \in Synonyms)
        /\ PollResolve(s, "ok", sData)) =>
         LET i == sweep[s].pos IN
           /\ jobs'[i] = [jobs[i] EXCEPT !.lastProviderPayload = sData]
           /\ sweep'[s].pc # "save"
           /\ materialized' = materialized
           /\ Pollable(jobs[i], now) => Pollable(jobs'[i], now)]_vars

\* C20: a job whose last status answer had no status field is still
\* processing and a sweep is polling it again
C20_Witness ==
  \E i \in JobIds, s \in Sweeps :
    /\ jobs[i].lastProviderPayload = Blank
    /\ jobs[i].status = "processing"
    /\ jobs[i].error = Undefined
    /\ jobs[i].resultUrl = Null
    /\ sweep[s].pc = "fetch"
    /\ sweep[s].pos = i

\* C21: the step of submit that creates a job leaves its record processing
\* with startedAt the time of the step and the provider call started, while
\* it answers status "queued"; no record is ever queued after a step, so
\* no sweep finds one, and a status query never answers "queued" but the
\* status of the record; startedAt of an existing job never changes.
C21_NeverObservedQueued ==
  [][
     /\ Len(jobs') > Len(jobs) =>
          LET jobId == Len(jobs') IN
            /\ out' = [code |-> 200, jobId |-> jobId, status |-> "queued"]
            /\ jobs'[jobId].status = "processing"
            /\ jobs'[jobId].startedAt = now
            /\ task'[jobId].pc = "fetch"
     /\ \A jobId \in JobIds :
          GetStatus(jobId) =>
            /\ out'.status = jobs[jobId].status
            /\ out'.status # "queued"
     /\ \A i \in 1..Len(jobs') : jobs'[i].status # "queued"
     /\ \A i \in JobIds : jobs'[i].startedAt = jobs[i].startedAt
  ]_vars

\* C21: a status query answered for a job created at this very time, its
\* provider call still outstanding
C21_Witness ==
  \E i \in JobIds :
    /\ out = [code |-> 200, id |-> i, status |-> "processing",
              resultUrl |-> Null, error |-> Undefined, providerJobId |-> Null]
    /\ jobs[i].startedAt = now
    /\ task[i].pc = "fetch"

\* C22: a step gives a job the timeout error only if the job was processing
\* and the time since its startedAt is strictly greater than its maxPollMs at
\* that step, and it leaves the job failed; so no job carries the timeout
\* error at a time within its limit.
C22_NoPrematureTimeout ==
  [][\A i \in JobIds :
       /\ (/\ jobs'[i].error = Message("Polling timeout")
           /\ jobs[i].error # Message("Polling timeout")) =>
            /\ jobs[i].status = "processing"
            /\ now - jobs[i].startedAt > jobs[i].maxPollMs
            /\ jobs'[i].status = "failed"
            /\ task' = task
       /\ jobs'[i].error = Message("Polling timeout") =>
            now' - jobs'[i].startedAt > jobs'[i].maxPollMs]_vars

\* C22: a job with a providerJobId failed by the first sweep after its limit,
\* one tick past it
C22_Witness ==
  \E i \in JobIds :
    /\ jobs[i].status = "failed"
    /\ jobs[i].error = Message("Polling timeout")
    /\ jobs[i].providerJobId # Null
    /\ now - jobs[i].startedAt = jobs[i].maxPollMs + 1
====
